---- MODULE Spec2Model ----
(***************************************************************************)
(* Meeting-transcript analysis pipeline (backend/ai_service.py and         *)
(* backend/main.py): split_text, analyze_chunk, merge_results,             *)
(* analyze_meeting and the POST /analyze handler.                          *)
(*                                                                         *)
(* A Python str is a sequence of one-character strings.  A JSON value is   *)
(* a record [t, s, n, items]; a Python dict is a function from a set of    *)
(* key strings to such values.  The external model's answer is either an   *)
(* exception or a text, given as a sequence of lexical pieces.             *)
(***************************************************************************)
EXTENDS Integers, Sequences, FiniteSets, TLC

VARIABLES pc, text, max_chars, chunks, response, result, results, calls,
          final, report, http

vars == <<pc, text, max_chars, chunks, response, result, results, calls,
          final, report, http>>

(***************************************************************************)
(* Bounds of the explored inputs.                                          *)
(***************************************************************************)
\* longest text given to split_text on its own
MaxTextLen == 5
\* largest max_chars given to split_text on its own
MaxMaxChars == 6
\* longest model answer, in lexical pieces
MaxRespLen == 3
\* longest text given to analyze_meeting
MaxPipeLen == 5
\* the value that stands for split_text's default max_chars (3500) when
\* analyze_meeting is explored: the orchestration reads max_chars only
\* through the chunk list, and texts of thousands of characters are out of
\* reach, so the default is scaled down to make several chunks happen
PipeMaxChars == 2

(***************************************************************************)
(* Strings.                                                                *)
(***************************************************************************)
\* characters of the explored texts: a letter, two sentence terminators,
\* the space and a newline
Chars == {"a", ".", "!", " ", "\n"}

\* the characters str.strip() removes, among Chars
Whitespace == {" ", "\n"}

\* the lookbehind class [.!?] of the split pattern
Terminators == {".", "!", "?"}

\* what the split pattern consumes after a terminator: ' +'
Separator == {" "}

RECURSIVE LStrip(_)
LStrip(s) ==
    IF s # <<>> /\ Head(s) \in Whitespace THEN LStrip(Tail(s)) ELSE s

RECURSIVE RStrip(_)
RStrip(s) ==
    IF s # <<>> /\ s[Len(s)] \in Whitespace
    THEN RStrip(SubSeq(s, 1, Len(s) - 1))
    ELSE s

\* str.strip()
Strip(s) == RStrip(LStrip(s))

\* first index >= i of s that holds no character of sep (Len(s) + 1 if none)
RECURSIVE SkipRun(_, _, _)
SkipRun(s, i, sep) ==
    IF i <= Len(s) /\ s[i] \in sep THEN SkipRun(s, i + 1, sep) ELSE i

\* re.split of s from index i, cur being the piece read so far: a match
\* starts at a character of sep that follows a terminator and takes the
\* whole run of sep characters
RECURSIVE SplitFrom(_, _, _, _)
SplitFrom(s, i, cur, sep) ==
    IF i > Len(s) THEN <<cur>>
    ELSE IF s[i] \in sep /\ i > 1 /\ s[i - 1] \in Terminators
    THEN <<cur>> \o SplitFrom(s, SkipRun(s, i, sep), <<>>, sep)
    ELSE SplitFrom(s, i + 1, Append(cur, s[i]), sep)

\* sentences = re.split(r'(?<=[.!?]) +', text)
Sentences(s) == SplitFrom(s, 1, <<>>, Separator)

(***************************************************************************)
(* split_text.                                                             *)
(***************************************************************************)
Fits_no_separator(current, sentence, mc) ==
    Len(current) + Len(sentence) <= mc

\* len(current) + len(sentence) + 1 <= max_chars
Fits(current, sentence, mc) ==
    Len(current) + Len(sentence) + 1 <= mc

SplitStep_drops_buffer(st, sentence, mc) ==
    IF Fits(st.current, sentence, mc)
    THEN [current |-> st.current
                      \o (IF st.current # <<>> THEN <<" ">> ELSE <<>>)
                      \o sentence,
          chunks |-> st.chunks]
    ELSE [current |-> sentence, chunks |-> st.chunks]

\* one iteration of the loop over the sentences
SplitStep(st, sentence, mc) ==
    IF Fits(st.current, sentence, mc)
    THEN [current |-> st.current
                      \o (IF st.current # <<>> THEN <<" ">> ELSE <<>>)
                      \o sentence,
          chunks |-> st.chunks]
    ELSE [current |-> sentence,
          chunks |-> IF st.current # <<>>
                     THEN Append(st.chunks, Strip(st.current))
                     ELSE st.chunks]

RECURSIVE SplitLoop(_, _, _)
SplitLoop(st, sentences, mc) ==
    IF sentences = <<>> THEN st
    ELSE SplitLoop(SplitStep(st, Head(sentences), mc), Tail(sentences), mc)

\* the flush after the loop
SplitFlush(st) ==
    IF st.current # <<>> THEN Append(st.chunks, Strip(st.current))
    ELSE st.chunks

split_text(s, mc) ==
    SplitFlush(SplitLoop([current |-> <<>>, chunks |-> <<>>],
                         Sentences(s), mc))

(***************************************************************************)
(* JSON values and dicts.                                                  *)
(***************************************************************************)
JStr(x) == [t |-> "str", s |-> x, n |-> 0, items |-> <<>>]

JInt(k) == [t |-> "int", s |-> "", n |-> k, items |-> <<>>]

JNull == [t |-> "null", s |-> "", n |-> 0, items |-> <<>>]

\* a JSON object held as a value (a task {owner, task, deadline, priority})
JObj(x) == [t |-> "obj", s |-> x, n |-> 0, items |-> <<>>]

JList(xs) == [t |-> "list", s |-> "", n |-> 0, items |-> xs]

\* isinstance(v, list) and isinstance(v, str)
IsList(v) == v.t = "list"

IsStr(v) == v.t = "str"

EmptyDict == [k \in {} |-> JNull]

\* d.get(k, default)
Get(d, k, default) == IF k \in DOMAIN d THEN d[k] ELSE default

\* d[k] = v
Put(d, k, v) == [x \in (DOMAIN d) \cup {k} |-> IF x = k THEN v ELSE d[x]]

\* the dict literal {"summary": a, "tasks": b, "next_meeting": c}
Dict3(a, b, c) ==
    [k \in {"summary", "tasks", "next_meeting"} |->
        IF k = "summary" THEN a ELSE IF k = "tasks" THEN b ELSE c]

(***************************************************************************)
(* The external model's answers.                                           *)
(***************************************************************************)
AbsentMark == JStr("<absent>")

SummaryChoices == {AbsentMark, JList(<<JStr("point")>>), JStr("point"), JNull}

TasksChoices == {AbsentMark, JList(<<JObj("task")>>), JStr("none")}

NextMeetingChoices == {AbsentMark, JStr("Monday"), JInt(5)}

ErrorChoices == {AbsentMark, JStr("model says error")}

\* the JSON object with the chosen members (AbsentMark: no such member)
MakeObject(sm, tk, nm, er) ==
    LET present == {k \in {"summary", "tasks", "next_meeting", "error"} :
                       CASE k = "summary" -> sm # AbsentMark
                         [] k = "tasks" -> tk # AbsentMark
                         [] k = "next_meeting" -> nm # AbsentMark
                         [] OTHER -> er # AbsentMark}
    IN [k \in present |->
           CASE k = "summary" -> sm
             [] k = "tasks" -> tk
             [] k = "next_meeting" -> nm
             [] OTHER -> er]

\* the JSON objects the model may answer with
Objects ==
    {MakeObject(sm, tk, nm, er) :
        sm \in SummaryChoices, tk \in TasksChoices,
        nm \in NextMeetingChoices, er \in ErrorChoices}

WellFormedObject ==
    MakeObject(JList(<<JStr("point")>>), JList(<<JObj("task")>>),
               JStr("Monday"), AbsentMark)

MistypedObject ==
    MakeObject(JStr("point"), JStr("none"), JInt(5), JStr("model says error"))

\* lexical pieces of an answer: c = "p" a letter that starts no JSON value,
\* "{" and "}" braces written in the prose, " " whitespace, "val" the text
\* of a JSON value that is no object and holds no brace, "obj" the text of
\* the JSON object o (it starts with '{' and ends with '}')
Piece(c) == [c |-> c, o |-> EmptyDict]

ObjPiece(o) == [c |-> "obj", o |-> o]

\* pieces that make up the longer answers
ProsePieces == {Piece("p"), Piece("{"), Piece("}"), Piece(" "), Piece("val")}

WrapPieces ==
    ProsePieces \cup {ObjPiece(WellFormedObject), ObjPiece(MistypedObject)}

SeqsUpTo(S, k) == UNION {[1..m -> S] : m \in 0..k}

Raises == [kind |-> "raise", toks |-> <<>>]

Text(toks) == [kind |-> "text", toks |-> toks]

\* every answer explored for one call of analyze_chunk or merge_results
Responses ==
    {Raises}
    \cup {Text(<<ObjPiece(o)>>) : o \in Objects}
    \cup {Text(toks) : toks \in SeqsUpTo(WrapPieces, MaxRespLen)}

(***************************************************************************)
(* Parsing and validating an answer (analyze_chunk, merge_results).        *)
(***************************************************************************)
IsSpace(tok) == tok.c = " "

RECURSIVE LStripToks(_)
LStripToks(toks) ==
    IF toks # <<>> /\ IsSpace(Head(toks)) THEN LStripToks(Tail(toks))
    ELSE toks

RECURSIVE RStripToks(_)
RStripToks(toks) ==
    IF toks # <<>> /\ IsSpace(toks[Len(toks)])
    THEN RStripToks(SubSeq(toks, 1, Len(toks) - 1))
    ELSE toks

\* response.text.strip()
StripToks(toks) == RStripToks(LStripToks(toks))

\* the piece holds a '{' / a '}'
Opens(tok) == tok.c \in {"{", "obj"}

Closes(tok) == tok.c \in {"}", "obj"}

\* the span of re.search(r'\{.*\}', text, re.DOTALL): from the first '{' to
\* the last '}' after it; <<0, 0>> when there is no match
SearchSpan(toks) ==
    LET opens == {i \in 1..Len(toks) : Opens(toks[i])}
    IN IF opens = {} THEN <<0, 0>>
       ELSE LET i == CHOOSE x \in opens : \A y \in opens : x <= y
                closes == {j \in i..Len(toks) :
                              /\ Closes(toks[j])
                              /\ (j = i => toks[i].c = "obj")}
            IN IF closes = {} THEN <<0, 0>>
               ELSE <<i, CHOOSE x \in closes : \A y \in closes : y <= x>>

ExtractJSON_no_search(toks) == toks

\* match = re.search(...); if match: text = match.group(0)
ExtractJSON(toks) ==
    LET span == SearchSpan(toks)
    IN IF span = <<0, 0>> THEN toks ELSE SubSeq(toks, span[1], span[2])

\* json.loads(text): a dict, a value that is no dict, or JSONDecodeError
Loads(toks) ==
    LET body == StripToks(toks)
    IN IF Len(body) = 1 /\ body[1].c = "obj"
       THEN [ok |-> TRUE, isdict |-> TRUE, d |-> body[1].o]
       ELSE IF Len(body) = 1 /\ body[1].c = "val"
       THEN [ok |-> TRUE, isdict |-> FALSE, d |-> EmptyDict]
       ELSE IF /\ Len(body) >= 2
               /\ body[1].c = "{"
               /\ body[Len(body)].c = "}"
               /\ \A i \in 2..(Len(body) - 1) : IsSpace(body[i])
       THEN [ok |-> TRUE, isdict |-> TRUE, d |-> EmptyDict]
       ELSE [ok |-> FALSE, isdict |-> FALSE, d |-> EmptyDict]

ValidateSummary_no_wrap(data) == data

\* if not isinstance(data.get("summary", []), list): data["summary"] = [...]
ValidateSummary(data) ==
    IF ~IsList(Get(data, "summary", JList(<<>>)))
    THEN Put(data, "summary", JList(<<Get(data, "summary", JStr(""))>>))
    ELSE data

ValidateTasks_keeps(data) == data

\* if not isinstance(data.get("tasks", []), list): data["tasks"] = []
ValidateTasks(data) ==
    IF ~IsList(Get(data, "tasks", JList(<<>>)))
    THEN Put(data, "tasks", JList(<<>>))
    ELSE data

\* if not isinstance(data.get("next_meeting", ""), str): ... = ""
ValidateNextMeeting(data) ==
    IF ~IsStr(Get(data, "next_meeting", JStr("")))
    THEN Put(data, "next_meeting", JStr(""))
    ELSE data

\* the three checks under "# Validate structure"
Validate(data) == ValidateNextMeeting(ValidateTasks(ValidateSummary(data)))

\* the except branch's dict; str(e) is kept as the kind of the exception
ErrorResult(msg) ==
    Put(Dict3(JList(<<>>), JList(<<>>), JStr("")), "error", JStr(msg))

\* the exception the try block ends with, "" when it returns
Failure(resp) ==
    IF resp.kind = "raise" THEN "model call failed"
    ELSE LET parsed == Loads(ExtractJSON(StripToks(resp.toks)))
         IN IF ~parsed.ok THEN "JSONDecodeError"
            ELSE IF ~parsed.isdict THEN "AttributeError"
            ELSE ""

\* the try/except body shared by analyze_chunk and merge_results
ParseResponse(resp) ==
    IF Failure(resp) # "" THEN ErrorResult(Failure(resp))
    ELSE Validate(Loads(ExtractJSON(StripToks(resp.toks))).d)

analyze_chunk(chunk, resp) == ParseResponse(resp)

merge_results(rs, resp) == ParseResponse(resp)

(***************************************************************************)
(* State.  pc is the position of the run; the fields a run does not use    *)
(* keep their initial values.                                              *)
(***************************************************************************)
NoResponse == [kind |-> "none", toks |-> <<>>]

(***************************************************************************)
(* split_text on its own.                                                  *)
(***************************************************************************)
InitSplit ==
    /\ pc = "split_call"
    /\ text \in SeqsUpTo(Chars, MaxTextLen)
    /\ max_chars \in 0..MaxMaxChars
    /\ chunks = <<>>
    /\ response = NoResponse
    /\ result = EmptyDict
    /\ results = <<>>
    /\ calls = <<>>
    /\ final = EmptyDict
    /\ report = EmptyDict
    /\ http = EmptyDict

\* chunks = split_text(text, max_chars)
SplitText ==
    /\ pc = "split_call"
    /\ chunks' = split_text(text, max_chars)
    /\ pc' = "split_done"
    /\ UNCHANGED <<text, max_chars, response, result, results, calls, final,
                   report, http>>

NextSplit == SplitText

SpecSplit == InitSplit /\ [][NextSplit]_vars

(***************************************************************************)
(* analyze_chunk and merge_results on their own: one call, any answer.     *)
(***************************************************************************)
SampleChunk == <<"a", ".">>

SampleResults ==
    {<<>>,
     <<ErrorResult("model call failed"), WellFormedObject>>,
     <<EmptyDict, Validate(MistypedObject)>>}

InitParse ==
    /\ pc = "parse_call"
    /\ text = <<>>
    /\ max_chars = 0
    /\ chunks = <<SampleChunk>>
    /\ response = NoResponse
    /\ result = EmptyDict
    /\ results \in SampleResults
    /\ calls = <<>>
    /\ final = EmptyDict
    /\ report = EmptyDict
    /\ http = EmptyDict

\* result = analyze_chunk(chunk), the model answering resp
CallAnalyzeChunk(resp) ==
    /\ pc = "parse_call"
    /\ response' = resp
    /\ result' = analyze_chunk(chunks[1], resp)
    /\ pc' = "chunk_done"
    /\ UNCHANGED <<text, max_chars, chunks, results, calls, final, report,
                   http>>

\* result = merge_results(results), the model answering resp
CallMergeResults(resp) ==
    /\ pc = "parse_call"
    /\ response' = resp
    /\ result' = merge_results(results, resp)
    /\ pc' = "merge_done"
    /\ UNCHANGED <<text, max_chars, chunks, results, calls, final, report,
                   http>>

NextParse ==
    \/ \E resp \in Responses : CallAnalyzeChunk(resp)
    \/ \E resp \in Responses : CallMergeResults(resp)

SpecParse == InitParse /\ [][NextParse]_vars

(***************************************************************************)
(* analyze_meeting under the POST /analyze handler.                        *)
(***************************************************************************)
PipeChars == {".", " "}

\* the answers explored for each call of a run of analyze_meeting
PipeResponses ==
    {Raises,
     Text(<<Piece("p")>>),
     Text(<<Piece("val")>>),
     Text(<<ObjPiece(EmptyDict)>>),
     Text(<<ObjPiece(WellFormedObject)>>),
     Text(<<ObjPiece(MistypedObject)>>),
     Text(<<Piece("p"), ObjPiece(WellFormedObject), Piece("}")>>)}

Init ==
    /\ pc = "start"
    /\ text \in SeqsUpTo(PipeChars, MaxPipeLen)
    /\ max_chars = PipeMaxChars
    /\ chunks = <<>>
    /\ response = NoResponse
    /\ result = EmptyDict
    /\ results = <<>>
    /\ calls = <<>>
    /\ final = EmptyDict
    /\ report = EmptyDict
    /\ http = EmptyDict

\* one external call, as the run records it
ChunkCall(chunk, resp, out) ==
    [fn |-> "analyze_chunk", chunk |-> chunk, rs |-> <<>>, resp |-> resp,
     out |-> out]

MergeCall(rs, resp, out) ==
    [fn |-> "merge_results", chunk |-> <<>>, rs |-> rs, resp |-> resp,
     out |-> out]

ChunksProcessed_counts_successes(cs, rs) ==
    Cardinality({i \in 1..Len(rs) : "error" \notin DOMAIN rs[i]})

\* len(chunks)
ChunksProcessed(cs, rs) == Len(cs)

\* the returned dict literal of analyze_meeting
BuildReport(fin, count) ==
    [k \in {"summary", "tasks", "next_meeting", "number_of_chunks_processed"}
       |-> CASE k = "summary" -> Get(fin, "summary", JList(<<>>))
             [] k = "tasks" -> Get(fin, "tasks", JList(<<>>))
             [] k = "next_meeting" -> Get(fin, "next_meeting", JStr(""))
             [] OTHER -> JInt(count)]

\* the except branch's dict of the handler
Fallback ==
    [k \in {"summary", "tasks", "next_meeting", "number_of_chunks_processed"}
       |-> CASE k = "summary" -> JList(<<>>)
             [] k = "tasks" -> JList(<<>>)
             [] k = "next_meeting" -> JStr("")
             [] OTHER -> JInt(0)]

\* chunks = split_text(text); results = []
Split ==
    /\ pc = "start"
    /\ chunks' = split_text(text, max_chars)
    /\ pc' = "analyze"
    /\ UNCHANGED <<text, max_chars, response, result, results, calls, final,
                   report, http>>

MoreChunks_stops_on_error(cs, rs) ==
    /\ Len(rs) < Len(cs)
    /\ \A i \in 1..Len(rs) : "error" \notin DOMAIN rs[i]

\* the for loop has a chunk left
MoreChunks(cs, rs) == Len(rs) < Len(cs)

\* one iteration of the for loop: result = analyze_chunk(chunk)
AnalyzeNextChunk(resp) ==
    /\ pc = "analyze"
    /\ MoreChunks(chunks, results)
    /\ LET chunk == chunks[Len(results) + 1]
           out == analyze_chunk(chunk, resp)
       IN /\ response' = resp
          /\ result' = out
          /\ results' = Append(results, out)
          /\ calls' = Append(calls, ChunkCall(chunk, resp, out))
    /\ UNCHANGED <<pc, text, max_chars, chunks, final, report, http>>

UseMerge_also_for_one(rs) == TRUE

\* the else branch of "if len(results) == 1"
UseMerge(rs) == Len(rs) # 1

\* len(results) == 1: final = results[0], the count is stored into it (and
\* so into results[0], the same dict) and the report is returned
ReturnSingle ==
    /\ pc = "analyze"
    /\ ~MoreChunks(chunks, results)
    /\ ~UseMerge(results)
    /\ LET count == ChunksProcessed(chunks, results)
           fin == Put(results[1], "number_of_chunks_processed", JInt(count))
       IN /\ final' = fin
          /\ results' = [results EXCEPT ![1] = fin]
          /\ report' = BuildReport(fin, count)
    /\ pc' = "returned"
    /\ UNCHANGED <<text, max_chars, chunks, response, result, calls, http>>

\* otherwise: final = merge_results(results), then as above
MergeAndReturn(resp) ==
    /\ pc = "analyze"
    /\ ~MoreChunks(chunks, results)
    /\ UseMerge(results)
    /\ LET out == merge_results(results, resp)
           count == ChunksProcessed(chunks, results)
           fin == Put(out, "number_of_chunks_processed", JInt(count))
       IN /\ response' = resp
          /\ result' = out
          /\ calls' = Append(calls, MergeCall(results, resp, out))
          /\ final' = fin
          /\ report' = BuildReport(fin, count)
    /\ pc' = "returned"
    /\ UNCHANGED <<text, max_chars, chunks, results, http>>

\* an exception that no try block of ai_service.py catches (MemoryError in
\* re.split, a defect) leaves analyze_meeting
UnexpectedException ==
    /\ pc \in {"start", "analyze"}
    /\ pc' = "raised"
    /\ UNCHANGED <<text, max_chars, chunks, response, result, results, calls,
                   final, report, http>>

\* the handler's try branch: return result
HandlerReturn ==
    /\ pc = "returned"
    /\ http' = report
    /\ pc' = "responded"
    /\ UNCHANGED <<text, max_chars, chunks, response, result, results, calls,
                   final, report>>

\* the handler's except branch
HandlerExcept ==
    /\ pc = "raised"
    /\ http' = Fallback
    /\ pc' = "fallback"
    /\ UNCHANGED <<text, max_chars, chunks, response, result, results, calls,
                   final, report>>

Next ==
    \/ Split
    \/ \E resp \in PipeResponses : AnalyzeNextChunk(resp)
    \/ ReturnSingle
    \/ \E resp \in PipeResponses : MergeAndReturn(resp)
    \/ UnexpectedException
    \/ HandlerReturn
    \/ HandlerExcept

Spec == Init /\ [][Next]_vars

(***************************************************************************)
(* Properties of split_text (checked under SpecSplit).                     *)
(***************************************************************************)
\* items joined by single spaces: " ".join(items)
RECURSIVE JoinSp(_)
JoinSp(items) ==
    IF items = <<>> THEN <<>>
    ELSE IF Len(items) = 1 THEN items[1]
    ELSE items[1] \o <<" ">> \o JoinSp(Tail(items))

\* every run of whitespace replaced by one space
RECURSIVE Collapse(_)
Collapse(s) ==
    IF s = <<>> THEN <<>>
    ELSE IF Head(s) \in Whitespace
    THEN <<" ">> \o Collapse(LStrip(s))
    ELSE <<Head(s)>> \o Collapse(Tail(s))

\* whitespace normalization: runs collapsed, both ends trimmed
NormalizeWs(s) == Collapse(Strip(s))

\* the sentences of s when a boundary is a terminator followed by any
\* whitespace
SentencesAtWhitespace(s) == SplitFrom(s, 1, <<>>, Whitespace)

\* the chunks a grouping of the sentences gives: sents is cut after every
\* index in cuts, each group is joined by single spaces and trimmed, a
\* group that joins to the empty string gives no chunk
GroupChunks(sents, cuts) ==
    LET n == Len(sents)
        ends == cuts \cup {n}
        start(e) == IF \E c \in ends : c < e
                    THEN (CHOOSE c \in ends :
                             c < e /\ \A d \in ends : d < e => d <= c) + 1
                    ELSE 1
        RECURSIVE Build(_)
        Build(e) ==
            IF e > n THEN <<>>
            ELSE IF e \in ends
            THEN LET joined == JoinSp(SubSeq(sents, start(e), e))
                 IN (IF joined = <<>> THEN <<>> ELSE <<Strip(joined)>>)
                    \o Build(e + 1)
            ELSE Build(e + 1)
    IN Build(1)

\* C6 as stated: every chunk is at most max_chars long or is one sentence
\* longer than max_chars, a sentence ending at '.', '!' or '?' followed by
\* whitespace
C6_ChunkBoundWhitespaceSentences ==
    pc = "split_done" =>
        \A i \in 1..Len(chunks) :
            \/ Len(chunks[i]) <= max_chars
            \/ Len(SentencesAtWhitespace(chunks[i])) = 1

\* C6 amended: every chunk is at most max_chars long or is one sentence
\* (trimmed) that is itself longer than max_chars, a sentence ending at
\* '.', '!' or '?' followed by one or more space characters
C6_ChunkBound ==
    pc = "split_done" =>
        \A i \in 1..Len(chunks) :
            \/ Len(chunks[i]) <= max_chars
            \/ \E j \in 1..Len(Sentences(text)) :
                  /\ Len(Sentences(text)[j]) > max_chars
                  /\ chunks[i] = Strip(Sentences(text)[j])

\* C6 witness: split_text returned an oversized one-sentence chunk beside a
\* chunk within the bound
C6_Witness ==
    /\ pc = "split_done"
    /\ Len(chunks) >= 2
    /\ \E i \in 1..Len(chunks) : Len(chunks[i]) > max_chars
    /\ \E i \in 1..Len(chunks) : Len(chunks[i]) <= max_chars

\* C7: split_text cuts only between sentences and loses, duplicates or
\* reorders none: the chunks are the trimmed joins of consecutive groups of
\* the sentences, and the chunks joined by single spaces equal the
\* sentences joined by single spaces up to whitespace normalization
C7_RejoinEqualsSentences ==
    pc = "split_done" =>
        LET sents == Sentences(text)
        IN /\ NormalizeWs(JoinSp(chunks)) = NormalizeWs(JoinSp(sents))
           /\ \E cuts \in SUBSET (1..(Len(sents) - 1)) :
                 chunks = GroupChunks(sents, cuts)

\* C7 witness: three or more sentences came out as two chunks, one of them
\* holding several sentences
C7_Witness ==
    /\ pc = "split_done"
    /\ Len(Sentences(text)) >= 3
    /\ Len(chunks) = 2
    /\ \E i \in 1..Len(chunks) : Len(Sentences(chunks[i])) >= 2

\* C8: every string split_text returns is non-empty, and the empty text
\* gives the empty sequence
C8_ChunksNonEmpty ==
    pc = "split_done" =>
        /\ \A i \in 1..Len(chunks) : chunks[i] # <<>>
        /\ (text = <<>> => chunks = <<>>)

(***************************************************************************)
(* Properties of analyze_chunk and merge_results (checked under SpecParse).*)
(***************************************************************************)
ParseDone == pc \in {"chunk_done", "merge_done"}

PrimaryKeys == {"summary", "tasks", "next_meeting"}

\* {summary: [], tasks: [], next_meeting: "", error: <a string>}
IsErrorResult(r) ==
    /\ DOMAIN r = PrimaryKeys \cup {"error"}
    /\ r["summary"] = JList(<<>>)
    /\ r["tasks"] = JList(<<>>)
    /\ r["next_meeting"] = JStr("")
    /\ IsStr(r["error"])

\* the primary fields r holds have their declared types
TypedWherePresent(r) ==
    /\ "summary" \in DOMAIN r => IsList(r["summary"])
    /\ "tasks" \in DOMAIN r => IsList(r["tasks"])
    /\ "next_meeting" \in DOMAIN r => IsStr(r["next_meeting"])

\* r is the object o with its mistyped primary fields repaired and nothing
\* else changed: no key added, none removed
RepairedObject(r, o) ==
    /\ DOMAIN r = DOMAIN o
    /\ \A k \in DOMAIN o :
          r[k] = CASE k = "summary" /\ ~IsList(o[k]) -> JList(<<o[k]>>)
                   [] k = "tasks" /\ ~IsList(o[k]) -> JList(<<>>)
                   [] k = "next_meeting" /\ ~IsStr(o[k]) -> JStr("")
                   [] OTHER -> o[k]

\* the answer is the text of one JSON object and nothing else
BareObject(resp) ==
    resp.kind = "text" /\ Len(resp.toks) = 1 /\ resp.toks[1].c = "obj"

\* the answer is an exception, text that is no JSON, or JSON that is no
\* object
BadAnswer(resp) ==
    \/ resp.kind = "raise"
    \/ /\ resp.kind = "text"
       /\ \A i \in 1..Len(resp.toks) : resp.toks[i].c \in {"p", " ", "val"}
       /\ (\E i \in 1..Len(resp.toks) : resp.toks[i].c = "p")
          \/ Len(StripToks(resp.toks)) # 1

\* C9 as stated: every result of analyze_chunk or merge_results holds all
\* three primary fields with their declared types, an absent field being
\* defaulted, and is the empty result with an error message on any error
C9_AllFieldsPresentAndTyped ==
    ParseDone =>
        /\ PrimaryKeys \subseteq DOMAIN result
        /\ TypedWherePresent(result)
        /\ (BadAnswer(response) => IsErrorResult(result))

\* C9 amended: every result of analyze_chunk or merge_results holds no
\* mistyped primary field (a present non-list summary is wrapped in a
\* one-element list, a non-list tasks becomes [], a non-string next_meeting
\* becomes ""), a field absent from the model's JSON object stays absent,
\* and on any error the result is the empty result with an error message
C9_TypedWherePresent ==
    ParseDone =>
        /\ TypedWherePresent(result)
        /\ (BareObject(response) =>
               RepairedObject(result, response.toks[1].o))
        /\ (BadAnswer(response) => IsErrorResult(result))
        /\ (Failure(response) # "" => IsErrorResult(result))

\* C9 witness: merge_results returned for an object with a null summary,
\* a string tasks and no next_meeting
C9_Witness ==
    /\ pc = "merge_done"
    /\ response = Text(<<ObjPiece(MakeObject(JNull, JStr("none"),
                                             AbsentMark, AbsentMark))>>)
    /\ result["summary"] = JList(<<JNull>>)
    /\ result["tasks"] = JList(<<>>)
    /\ "next_meeting" \notin DOMAIN result

\* the answer is one JSON object with pieces of kinds in prose before and
\* after it, at least one of them present
ObjectInProse(resp, prose) ==
    /\ resp.kind = "text"
    /\ Len(resp.toks) >= 2
    /\ \E i \in 1..Len(resp.toks) :
          /\ resp.toks[i].c = "obj"
          /\ \A j \in (1..Len(resp.toks)) \ {i} : resp.toks[j].c \in prose

\* the object of such an answer
ObjectOf(resp) ==
    (CHOOSE tok \in {resp.toks[i] : i \in 1..Len(resp.toks)} :
        tok.c = "obj").o

\* C10 as stated: a JSON object surrounded by any prose, braces included,
\* is extracted and parsed: the result carries the object's fields and no
\* error field of its own
C10_ObjectInAnyProse ==
    ParseDone /\ ObjectInProse(response, {"p", " ", "val", "{", "}"}) =>
        /\ DOMAIN ObjectOf(response) \subseteq DOMAIN result
        /\ ("error" \in DOMAIN result => "error" \in DOMAIN ObjectOf(response))

\* C10 amended: a JSON object surrounded by prose that holds no '{' and no
\* '}' is extracted (the span from the first '{' to the last '}') and
\* parsed: the result is the object with its mistyped fields repaired, and
\* has an error field only if the object has one
C10_ObjectInBraceFreeProse ==
    ParseDone /\ ObjectInProse(response, {"p", " ", "val"}) =>
        /\ RepairedObject(result, ObjectOf(response))
        /\ ("error" \in DOMAIN result => "error" \in DOMAIN ObjectOf(response))

\* C10 witness: analyze_chunk returned the object of an answer that
\* starts with brace-free prose
C10_Witness ==
    /\ pc = "chunk_done"
    /\ response = Text(<<Piece("p"), Piece(" "),
                         ObjPiece(WellFormedObject)>>)
    /\ result = WellFormedObject

(***************************************************************************)
(* Properties of analyze_meeting and the handler (checked under Spec).     *)
(***************************************************************************)
ReportKeys ==
    {"summary", "tasks", "next_meeting", "number_of_chunks_processed"}

Returned == pc \in {"returned", "responded"}

\* exactly the four keys, with their types
ReportShape(r) ==
    /\ DOMAIN r = ReportKeys
    /\ IsList(r["summary"])
    /\ IsList(r["tasks"])
    /\ IsStr(r["next_meeting"])
    /\ r["number_of_chunks_processed"].t = "int"

\* summary = [], tasks = [], next_meeting = "" and the given count
EmptyReport(r, count) ==
    /\ DOMAIN r = ReportKeys
    /\ r["summary"] = JList(<<>>)
    /\ r["tasks"] = JList(<<>>)
    /\ r["next_meeting"] = JStr("")
    /\ r["number_of_chunks_processed"] = JInt(count)

\* the external call ended in the except branch
CallFailed(call) == Failure(call.resp) # ""

\* C1: whatever the model does on each call, analyze_meeting returns a
\* report with exactly the keys summary, tasks, next_meeting and
\* number_of_chunks_processed, typed list, list, string and integer, and
\* the handler answers with a dict of that shape
C1_ReportShape ==
    /\ Returned => ReportShape(report)
    /\ pc \in {"responded", "fallback"} => ReportShape(http)

\* C1 witness: a one-chunk run returned after the model answered with an
\* object whose three fields are all mistyped
C1_Witness ==
    /\ pc = "returned"
    /\ Len(chunks) = 1
    /\ calls[1].resp = Text(<<ObjPiece(MistypedObject)>>)
    /\ report["summary"] = JList(<<JStr("point")>>)

\* C2 as stated: with exactly one chunk the report is the value
\* analyze_chunk returned, its error field included, plus
\* number_of_chunks_processed = 1, and merge_results is not called
C2_SingleChunkUnchanged ==
    Returned /\ Len(chunks) = 1 =>
        /\ Len(calls) = 1
        /\ calls[1].fn = "analyze_chunk"
        /\ report = Put(calls[1].out, "number_of_chunks_processed", JInt(1))

\* C2 amended: with exactly one chunk the report holds the summary, tasks
\* and next_meeting of the value analyze_chunk returned (an absent one
\* defaulted to [], [], "") and number_of_chunks_processed = 1, and no
\* other key: an error field or any other key of that value is not carried
\* over; merge_results is not called
C2_SingleChunkFields ==
    Returned /\ Len(chunks) = 1 =>
        /\ Len(calls) = 1
        /\ calls[1].fn = "analyze_chunk"
        /\ calls[1].chunk = chunks[1]
        /\ DOMAIN report = ReportKeys
        /\ report["summary"] = Get(calls[1].out, "summary", JList(<<>>))
        /\ report["tasks"] = Get(calls[1].out, "tasks", JList(<<>>))
        /\ report["next_meeting"] = Get(calls[1].out, "next_meeting", JStr(""))
        /\ report["number_of_chunks_processed"] = JInt(1)

\* C2 witness: a one-chunk run returned after the model call raised: the
\* chunk's result has an error field, the report has none
C2_Witness ==
    /\ pc = "returned"
    /\ Len(chunks) = 1
    /\ calls[1].resp = Raises
    /\ "error" \in DOMAIN calls[1].out
    /\ "error" \notin DOMAIN report

\* C3: with N > 1 chunks there are exactly N analyze_chunk calls, one per
\* chunk in splitter order, none repeated and none skipped after a failure,
\* then exactly one merge_results call over the N results in that order,
\* and number_of_chunks_processed = N whatever the calls' outcomes
C3_CallsThenOneMerge ==
    Len(chunks) > 1 /\ pc \in {"analyze", "returned", "responded"} =>
        LET N == Len(chunks)
        IN /\ Len(calls) <= N + 1
           /\ \A i \in 1..Len(calls) :
                 IF i <= N
                 THEN /\ calls[i].fn = "analyze_chunk"
                      /\ calls[i].chunk = chunks[i]
                 ELSE /\ calls[i].fn = "merge_results"
                      /\ calls[i].rs = [j \in 1..N |-> calls[j].out]
           /\ Returned =>
                 /\ Len(calls) = N + 1
                 /\ report["number_of_chunks_processed"] = JInt(N)

\* C3 witness: a three-chunk run returned after the first chunk call and
\* the merge call raised and the second chunk call succeeded
C3_Witness ==
    /\ pc = "returned"
    /\ Len(chunks) = 3
    /\ calls[1].resp = Raises
    /\ calls[2].resp = Text(<<ObjPiece(WellFormedObject)>>)
    /\ calls[4].resp = Raises

\* C4: with zero chunks analyze_meeting makes no external call and returns
\* summary = [], tasks = [], next_meeting = "" and
\* number_of_chunks_processed = 0, whatever the model would answer
C4_ZeroChunksNoCall ==
    Returned /\ Len(chunks) = 0 =>
        /\ calls = <<>>
        /\ EmptyReport(report, 0)

\* C5 as stated: if every external call fails the report is empty with
\* number_of_chunks_processed = the number of chunks; the handler answers
\* all-empty with 0 only when an exception left analyze_meeting, and then
\* answers that fallback
C5_ZeroOnlyOnException ==
    /\ Returned /\ (\A i \in 1..Len(calls) : CallFailed(calls[i])) =>
          EmptyReport(report, Len(chunks))
    /\ pc = "fallback" => EmptyReport(http, 0)
    /\ pc \in {"responded", "fallback"} /\ EmptyReport(http, 0) =>
          pc = "fallback"

\* C5 amended: if every external call fails the report is empty with
\* number_of_chunks_processed = the number of chunks; the handler answers
\* with analyze_meeting's report when it returns, so it answers
\* number_of_chunks_processed = 0 only when split_text gave zero chunks or
\* an exception left analyze_meeting, and in the latter case it answers the
\* all-empty fallback
C5_DegradedPaths ==
    /\ Returned /\ (\A i \in 1..Len(calls) : CallFailed(calls[i])) =>
          EmptyReport(report, Len(chunks))
    /\ pc = "responded" => http = report
    /\ pc = "fallback" => EmptyReport(http, 0)
    /\ pc \in {"responded", "fallback"}
          /\ http["number_of_chunks_processed"] = JInt(0) =>
          pc = "fallback" \/ Len(chunks) = 0

\* C5 witness: the handler answered a two-chunk run in which all three
\* external calls raised
C5_Witness ==
    /\ pc = "responded"
    /\ Len(chunks) = 2
    /\ Len(calls) = 3
    /\ \A i \in 1..Len(calls) : calls[i].resp = Raises
    /\ EmptyReport(http, 2)

====
